---- MODULE Spec2Model ----
(***************************************************************************)
(* Pickup queue: the packages table, the package use case (create,        *)
(* update status, delete, mark expired) and the expiry worker.            *)
(*                                                                         *)
(* Every store call (one SQL statement) is one atomic step.  A use case    *)
(* method that makes two store calls is two steps, so the calls of        *)
(* different requests and of the worker interleave.                       *)
(***************************************************************************)
EXTENDS Integers, FiniteSets, Sequences, TLC

(* ---------------------------------------------------------------------- *)
(* Bounds of the model                                                     *)
(* ---------------------------------------------------------------------- *)

\* number of identifiers uuid.New() hands out in one run
MaxPkgs == 2

\* number of steps the clock takes while request goroutines run alone
MaxTicks == 1

\* number of steps the clock takes while the worker runs
MaxWorkerTicks == 2

(* ---------------------------------------------------------------------- *)
(* Domain                                                                  *)
(* ---------------------------------------------------------------------- *)

StatusWaiting == "WAITING"

StatusPicked == "PICKED"

StatusHandedOver == "HANDED_OVER"

StatusExpired == "EXPIRED"

\* the values of the PackageStatus enumeration
Statuses == {StatusWaiting, StatusPicked, StatusHandedOver, StatusExpired}

\* a status string a request may carry: PackageStatus is a string type, so
\* the body of PATCH /packages/:id/status may hold any non-empty string
RequestStatuses == Statuses \cup {"PICKED_UP"}

\* the status values the CHECK constraint of the packages table admits
TableStatuses == {"WAITING", "PICKED_UP", "HANDED_OVER", "EXPIRED"}

\* the nil of the *time.Time fields, NULL in the table
NullTime == 0

\* the expiry threshold of GetExpiredPackages, in hours
ExpiryHours == 24

\* order references a create request may carry
OrderRefs == {"", "ORD-1"}

\* driver codes a create request may carry
DriverCodes == {"DRV-1"}

\* request goroutines of the API server
Procs == {"r1", "r2"}

\* the goroutine of the worker's main
Worker == "w"

Pkg(id, ref, drv, st, c, u, pk, ho, ex) ==
    [ID |-> id, OrderRef |-> ref, DriverCode |-> drv, Status |-> st,
     CreatedAt |-> c, UpdatedAt |-> u,
     PickedUpAt |-> pk, HandedOverAt |-> ho, ExpiredAt |-> ex]

\* a PackageStats as var stats declares it
ZeroStats == [Total |-> 0, Waiting |-> 0, Picked |-> 0, HandedOver |-> 0, Expired |-> 0]

\* no PackageListResponse
NoList == [Data |-> <<>>, Limit |-> 0, Offset |-> 0, Count |-> 0, Asked |-> <<>>]

\* a nil *domain.Package
NoPkg == Pkg(0, "", "", "", NullTime, NullTime, NullTime, NullTime, NullTime)

VARIABLES
    packages,      \* the packages table: id -> row
    checkStatus,   \* whether the table carries the migration's CHECK on status
    now,           \* time.Now(), in hours
    nextId,        \* the next identifier uuid.New() returns
    pc,            \* where each goroutine stands
    local,         \* the pkg variable of the call a goroutine is in
    stale,         \* the worker's expiredPackages still to be visited
    found,         \* the worker's expiredPackages as the query returned them
    skipped,       \* those of them whose UpdatePackageStatus returned an error
    loaded,        \* the status that call read from the table
    dropped,       \* the error of GetByOrderRef that CreatePackage discarded
    ticked,        \* ticker.C holds a tick
    stats,         \* the PackageStats a GetPackageStats call has filled so far
    listed,        \* the PackageListResponse of the ListPackages that returned
    last           \* what the call that returned in the last step returned

vars == <<packages, checkStatus, now, nextId, pc, local, loaded, dropped, stale,
          found, skipped, ticked, stats, listed, last>>

(* ---------------------------------------------------------------------- *)
(* Results                                                                 *)
(* ---------------------------------------------------------------------- *)

\* what a call returned: the method, the id or the order reference it was
\* called with, the error, the record, the store methods it invoked, the
\* status it loaded and, for UpdatePackageStatus, the status requested
Result(op, id, ref, err, ret, calls, cur, new) ==
    [op |-> op, id |-> id, ref |-> ref, err |-> err, ret |-> ret,
     calls |-> calls, cur |-> cur, new |-> new]

NoResult == Result("none", 0, "", "nil", NoPkg, {}, "", "")

(* ---------------------------------------------------------------------- *)
(* The repository: one SQL statement each                                  *)
(* ---------------------------------------------------------------------- *)

\* SELECT ... WHERE id = $1; sql.ErrNoRows becomes nil, nil
RepoGetByID(id) ==
    IF id \in DOMAIN packages THEN packages[id] ELSE NoPkg

\* SELECT ... WHERE order_ref = $1; sql.ErrNoRows becomes nil, nil
RepoGetByOrderRef(ref) ==
    IF \E i \in DOMAIN packages : packages[i].OrderRef = ref
    THEN packages[CHOOSE i \in DOMAIN packages : packages[i].OrderRef = ref]
    ELSE NoPkg

\* whether the table's CHECK (status IN ...) rejects the row
CheckRejects(st) == checkStatus /\ st \notin TableStatuses

\* RepoCreateErr for a table without UNIQUE (order_ref)
RepoCreateErr_NoUnique(pkg, ok) ==
    IF ~ok THEN "ErrConnDone"
    ELSE IF pkg.ID \in DOMAIN packages THEN "unique_violation"
    ELSE IF CheckRejects(pkg.Status) THEN "check_violation"
    ELSE "nil"

\* the error of INSERT INTO packages: the connection (ok), the primary key,
\* UNIQUE (order_ref) and the CHECK on status
RepoCreateErr(pkg, ok) ==
    IF ~ok THEN "ErrConnDone"
    ELSE IF pkg.ID \in DOMAIN packages THEN "unique_violation"
    ELSE IF \E i \in DOMAIN packages : packages[i].OrderRef = pkg.OrderRef
         THEN "unique_violation"
    ELSE IF CheckRejects(pkg.Status) THEN "check_violation"
    ELSE "nil"

\* the table after INSERT INTO packages (id, order_ref, driver_code, status,
\* created_at, updated_at): the three nullable columns are NULL
RepoCreateRows(pkg) ==
    [i \in DOMAIN packages \cup {pkg.ID} |->
        IF i = pkg.ID
        THEN Pkg(pkg.ID, pkg.OrderRef, pkg.DriverCode, pkg.Status,
                 pkg.CreatedAt, pkg.UpdatedAt, NullTime, NullTime, NullTime)
        ELSE packages[i]]

\* the error of UPDATE packages SET ... WHERE id = $1: a statement that
\* matches no row is no error
RepoUpdateErr(pkg, ok) ==
    IF ~ok THEN "ErrConnDone"
    ELSE IF pkg.ID \notin DOMAIN packages THEN "nil"
    ELSE IF \E i \in DOMAIN packages \ {pkg.ID} : packages[i].OrderRef = pkg.OrderRef
         THEN "unique_violation"
    ELSE IF CheckRejects(pkg.Status) THEN "check_violation"
    ELSE "nil"

\* RepoUpdateRows as an upsert: a row is inserted when none has the id
RepoUpdateRows_Upsert(pkg) ==
    [i \in DOMAIN packages \cup {pkg.ID} |->
        IF i = pkg.ID
        THEN Pkg(i, pkg.OrderRef, pkg.DriverCode, pkg.Status,
                 pkg.CreatedAt, pkg.UpdatedAt,
                 pkg.PickedUpAt, pkg.HandedOverAt, pkg.ExpiredAt)
        ELSE packages[i]]

\* the table after UPDATE packages SET order_ref, driver_code, status,
\* updated_at, picked_up_at, handed_over_at, expired_at WHERE id = $1
RepoUpdateRows(pkg) ==
    [i \in DOMAIN packages |->
        IF i = pkg.ID
        THEN Pkg(i, pkg.OrderRef, pkg.DriverCode, pkg.Status,
                 packages[i].CreatedAt, pkg.UpdatedAt,
                 pkg.PickedUpAt, pkg.HandedOverAt, pkg.ExpiredAt)
        ELSE packages[i]]

\* the table after DELETE FROM packages WHERE id = $1
RepoDeleteRows(id) ==
    [i \in DOMAIN packages \ {id} |-> packages[i]]

\* RepoGetExpiredPackages with created_at <= now - 24h
RepoGetExpiredPackages_AtThreshold ==
    {i \in DOMAIN packages :
        /\ packages[i].Status \in {StatusWaiting, StatusPicked}
        /\ packages[i].CreatedAt <= now - ExpiryHours}

\* RepoGetExpiredPackages with WHERE status = WAITING
RepoGetExpiredPackages_WaitingOnly ==
    {i \in DOMAIN packages :
        /\ packages[i].Status \in {StatusWaiting}
        /\ packages[i].CreatedAt < now - ExpiryHours}

\* SELECT ... WHERE status IN (WAITING, PICKED) AND created_at < now - 24h:
\* the ids of the rows returned
RepoGetExpiredPackages ==
    {i \in DOMAIN packages :
        /\ packages[i].Status \in {StatusWaiting, StatusPicked}
        /\ packages[i].CreatedAt < now - ExpiryHours}

(* ---------------------------------------------------------------------- *)
(* The use case                                                            *)
(* ---------------------------------------------------------------------- *)

\* isValidStatusTransition with HANDED_OVER treated like PICKED
isValidStatusTransition_TerminalLeak(currentStatus, newStatus) ==
    CASE currentStatus = StatusWaiting ->
            newStatus = StatusPicked \/ newStatus = StatusExpired
      [] currentStatus \in {StatusPicked, StatusHandedOver} ->
            newStatus = StatusHandedOver \/ newStatus = StatusExpired
      [] OTHER -> FALSE

isValidStatusTransition(currentStatus, newStatus) ==
    CASE currentStatus = StatusWaiting ->
            newStatus = StatusPicked \/ newStatus = StatusExpired
      [] currentStatus = StatusPicked ->
            newStatus = StatusHandedOver \/ newStatus = StatusExpired
      [] currentStatus \in {StatusHandedOver, StatusExpired} -> FALSE
      [] OTHER -> FALSE

\* pkg.Status = newStatus; pkg.UpdatedAt = now; and the switch on newStatus
Stamped(pkg, newStatus, t) ==
    LET p1 == [pkg EXCEPT !.Status = newStatus, !.UpdatedAt = t]
    IN  CASE newStatus = StatusPicked     -> [p1 EXCEPT !.PickedUpAt = t]
          [] newStatus = StatusHandedOver -> [p1 EXCEPT !.HandedOverAt = t]
          [] newStatus = StatusExpired    -> [p1 EXCEPT !.ExpiredAt = t]
          [] OTHER -> p1

\* the result of the call that returned has been taken by its caller
Ready == last = NoResult

\* Back with the loop of MarkExpiredPackages left at the first record
Back_LeaveLoop(p) == IF p = Worker THEN "select" ELSE "idle"

\* where a goroutine stands after UpdatePackageStatus returns
Back(p) == IF p = Worker THEN "sweep" ELSE "idle"

\* the request goroutines between CreatePackage's lookup and its insert
Creating == {q \in Procs : pc[q] = "create"}

Returns(p, back, res) ==
    /\ pc' = [pc EXCEPT ![p] = back]
    /\ local' = [local EXCEPT ![p] = NoPkg]
    /\ loaded' = [loaded EXCEPT ![p] = ""]
    /\ dropped' = [dropped EXCEPT ![p] = "nil"]
    /\ last' = res

\* CreatePackageLookup without the test of existing
CreatePackageLookup_NoCheck(p, ref, drv, ok) ==
    /\ Ready
    /\ pc[p] = "idle"
    /\ nextId + Cardinality(Creating) <= MaxPkgs
    /\ pc' = [pc EXCEPT ![p] = "create"]
    /\ local' = [local EXCEPT ![p] =
           Pkg(0, ref, drv, StatusWaiting, now, NullTime,
               NullTime, NullTime, NullTime)]
    /\ dropped' = [dropped EXCEPT ![p] = IF ok THEN "nil" ELSE "ErrConnDone"]
    /\ last' = NoResult
    /\ UNCHANGED <<packages, checkStatus, stats, listed, now, nextId, loaded, stale, found, skipped, ticked>>

\* CreatePackage up to the return of GetByOrderRef, whose error is dropped;
\* the first time.Now() of the pkg literal is read here
CreatePackageLookup(p, ref, drv, ok) ==
    /\ Ready
    /\ pc[p] = "idle"
    /\ nextId + Cardinality(Creating) <= MaxPkgs
    /\ LET existing == IF ok THEN RepoGetByOrderRef(ref) ELSE NoPkg
       IN  IF existing # NoPkg
           THEN Returns(p, "idle",
                    Result("CreatePackage", 0, ref, "ErrDuplicateOrderRef", NoPkg,
                           {"GetByOrderRef"}, "", ""))
           ELSE /\ pc' = [pc EXCEPT ![p] = "create"]
                /\ local' = [local EXCEPT ![p] =
                       Pkg(0, ref, drv, StatusWaiting, now, NullTime,
                           NullTime, NullTime, NullTime)]
                /\ loaded' = loaded
                /\ dropped' = [dropped EXCEPT ![p] =
                       IF ok THEN "nil" ELSE "ErrConnDone"]
                /\ last' = NoResult
    /\ UNCHANGED <<packages, checkStatus, stats, listed, now, nextId, stale, found, skipped, ticked>>

\* the rest of CreatePackage: uuid.New(), the second time.Now(), Create
CreatePackageInsert(p, ok) ==
    /\ Ready
    /\ pc[p] = "create"
    /\ LET pkg == [local[p] EXCEPT !.ID = nextId, !.UpdatedAt = now]
           err == RepoCreateErr(pkg, ok)
       IN  /\ packages' = IF err = "nil" THEN RepoCreateRows(pkg) ELSE packages
           /\ nextId' = IF err = "nil" THEN nextId + 1 ELSE nextId
           /\ Returns(p, "idle",
                  Result("CreatePackage", 0, pkg.OrderRef, err,
                         IF err = "nil" THEN pkg ELSE NoPkg,
                         {"GetByOrderRef", "Create"}, "", ""))
    /\ UNCHANGED <<checkStatus, stats, listed, now, stale, found, skipped, ticked>>

\* UpdatePackageStatusLoad with the record written before the transition
\* rule is evaluated
UpdatePackageStatusLoad_WriteFirst(p, id, newStatus, ok) ==
    LET pkg == RepoGetByID(id)
        fails(err, cur, calls) == Returns(p, Back(p),
            Result("UpdatePackageStatus", id, "", err, NoPkg, calls, cur, newStatus))
    IN  /\ IF ~ok THEN fails("ErrConnDone", "", {"GetByID"}) /\ packages' = packages
           ELSE IF pkg = NoPkg
                THEN fails("ErrPackageNotFound", "", {"GetByID"}) /\ packages' = packages
           ELSE IF ~isValidStatusTransition(pkg.Status, newStatus)
                THEN /\ fails("ErrInvalidStatusTransition", pkg.Status,
                              {"GetByID", "Update"})
                     /\ packages' = RepoUpdateRows(Stamped(pkg, newStatus, now))
           ELSE /\ pc' = [pc EXCEPT ![p] = "update"]
                /\ local' = [local EXCEPT ![p] = Stamped(pkg, newStatus, now)]
                /\ loaded' = [loaded EXCEPT ![p] = pkg.Status]
                /\ dropped' = dropped
                /\ last' = NoResult
                /\ packages' = packages
        /\ UNCHANGED <<checkStatus, stats, listed, now, nextId, ticked>>

\* UpdatePackageStatus up to the call of Update: GetByID, the transition
\* rule, time.Now() and the assignments to the loaded record
UpdatePackageStatusLoad(p, id, newStatus, ok) ==
    LET pkg == RepoGetByID(id)
        fails(err, cur) == Returns(p, Back(p),
            Result("UpdatePackageStatus", id, "", err, NoPkg, {"GetByID"}, cur,
                   newStatus))
    IN  /\ IF ~ok THEN fails("ErrConnDone", "")
           ELSE IF pkg = NoPkg THEN fails("ErrPackageNotFound", "")
           ELSE IF ~isValidStatusTransition(pkg.Status, newStatus)
                THEN fails("ErrInvalidStatusTransition", pkg.Status)
           ELSE /\ pc' = [pc EXCEPT ![p] = "update"]
                /\ local' = [local EXCEPT ![p] = Stamped(pkg, newStatus, now)]
                /\ loaded' = [loaded EXCEPT ![p] = pkg.Status]
                /\ dropped' = dropped
                /\ last' = NoResult
        /\ UNCHANGED <<packages, checkStatus, stats, listed, now, nextId, ticked>>

\* the rest of UpdatePackageStatus: Update and the return
UpdatePackageStatusPersist(p, ok) ==
    /\ Ready
    /\ pc[p] = "update"
    /\ LET err == RepoUpdateErr(local[p], ok)
       IN  /\ packages' = IF err = "nil" THEN RepoUpdateRows(local[p]) ELSE packages
           /\ Returns(p, Back(p),
                  Result("UpdatePackageStatus", local[p].ID, "", err,
                         IF err = "nil" THEN local[p] ELSE NoPkg,
                         {"GetByID", "Update"}, loaded[p], local[p].Status))
           /\ skipped' = IF p = Worker /\ err # "nil"
                         THEN skipped \cup {local[p].ID} ELSE skipped
    /\ UNCHANGED <<checkStatus, stats, listed, now, nextId, stale, found, ticked>>

\* a request's UpdatePackageStatus
UpdateRequest(p, id, newStatus, ok) ==
    /\ Ready
    /\ pc[p] = "idle"
    /\ UpdatePackageStatusLoad(p, id, newStatus, ok)
    /\ UNCHANGED <<stale, found, skipped>>

\* GetPackage without the test of a nil record
GetPackage_NilOnMiss(p, id, ok) ==
    /\ Ready
    /\ pc[p] = "idle"
    /\ Returns(p, "idle",
           Result("GetPackage", id, "", IF ok THEN "nil" ELSE "ErrConnDone",
                  IF ok THEN RepoGetByID(id) ELSE NoPkg, {"GetByID"}, "", ""))
    /\ UNCHANGED <<packages, checkStatus, stats, listed, now, nextId, stale, found, skipped, ticked>>

\* GetPackage: GetByID, and a nil record is ErrPackageNotFound
GetPackage(p, id, ok) ==
    /\ Ready
    /\ pc[p] = "idle"
    /\ LET pkg == RepoGetByID(id)
           err == IF ~ok THEN "ErrConnDone"
                  ELSE IF pkg = NoPkg THEN "ErrPackageNotFound" ELSE "nil"
       IN  Returns(p, "idle",
               Result("GetPackage", id, "", err,
                      IF err = "nil" THEN pkg ELSE NoPkg, {"GetByID"}, "", ""))
    /\ UNCHANGED <<packages, checkStatus, stats, listed, now, nextId, stale, found, skipped, ticked>>

\* GetPackageByOrderRef: GetByOrderRef, and a nil record is
\* ErrPackageNotFound
GetPackageByOrderRef(p, ref, ok) ==
    /\ Ready
    /\ pc[p] = "idle"
    /\ LET pkg == RepoGetByOrderRef(ref)
           err == IF ~ok THEN "ErrConnDone"
                  ELSE IF pkg = NoPkg THEN "ErrPackageNotFound" ELSE "nil"
       IN  Returns(p, "idle",
               Result("GetPackageByOrderRef", 0, ref, err,
                      IF err = "nil" THEN pkg ELSE NoPkg, {"GetByOrderRef"}, "", ""))
    /\ UNCHANGED <<packages, checkStatus, stats, listed, now, nextId, stale, found, skipped, ticked>>

\* DeletePackageLoad refusing a package that is HANDED_OVER or EXPIRED
DeletePackageLoad_KeepTerminal(p, id, ok) ==
    /\ Ready
    /\ pc[p] = "idle"
    /\ LET pkg == RepoGetByID(id)
           fails(err) == Returns(p, "idle",
               Result("DeletePackage", id, "", err, NoPkg, {"GetByID"}, "", ""))
       IN  IF ~ok THEN fails("ErrConnDone")
           ELSE IF pkg = NoPkg THEN fails("ErrPackageNotFound")
           ELSE IF pkg.Status \in {StatusHandedOver, StatusExpired}
                THEN fails("ErrInvalidStatusTransition")
           ELSE /\ pc' = [pc EXCEPT ![p] = "delete"]
                /\ local' = [local EXCEPT ![p] = [NoPkg EXCEPT !.ID = pkg.ID]]
                /\ loaded' = [loaded EXCEPT ![p] = pkg.Status]
                /\ dropped' = dropped
                /\ last' = NoResult
    /\ UNCHANGED <<packages, checkStatus, stats, listed, now, nextId, stale, found, skipped, ticked>>

\* DeletePackage up to the call of Delete; of the loaded record only the
\* id is used afterwards
DeletePackageLoad(p, id, ok) ==
    /\ Ready
    /\ pc[p] = "idle"
    /\ LET pkg == RepoGetByID(id)
           fails(err) == Returns(p, "idle",
               Result("DeletePackage", id, "", err, NoPkg, {"GetByID"}, "", ""))
       IN  IF ~ok THEN fails("ErrConnDone")
           ELSE IF pkg = NoPkg THEN fails("ErrPackageNotFound")
           ELSE /\ pc' = [pc EXCEPT ![p] = "delete"]
                /\ local' = [local EXCEPT ![p] = [NoPkg EXCEPT !.ID = pkg.ID]]
                /\ loaded' = [loaded EXCEPT ![p] = pkg.Status]
                /\ dropped' = dropped
                /\ last' = NoResult
    /\ UNCHANGED <<packages, checkStatus, stats, listed, now, nextId, stale, found, skipped, ticked>>

\* the rest of DeletePackage: Delete(id)
DeletePackageExec(p, ok) ==
    /\ Ready
    /\ pc[p] = "delete"
    /\ packages' = IF ok THEN RepoDeleteRows(local[p].ID) ELSE packages
    /\ Returns(p, "idle",
           Result("DeletePackage", local[p].ID, "",
                  IF ok THEN "nil" ELSE "ErrConnDone", NoPkg,
                  {"GetByID", "Delete"}, loaded[p], ""))
    /\ UNCHANGED <<checkStatus, stats, listed, now, nextId, stale, found, skipped, ticked>>

(* ---------------------------------------------------------------------- *)
(* Statistics and listing                                                  *)
(* ---------------------------------------------------------------------- *)

\* SELECT COUNT(*) FROM packages
RepoCountAll == Cardinality(DOMAIN packages)

\* RepoCountStatus with the WHERE clause left out
RepoCountStatus_NoWhere(st) == Cardinality(DOMAIN packages)

\* SELECT COUNT(*) FROM packages WHERE status = $1
RepoCountStatus(st) == Cardinality({i \in DOMAIN packages : packages[i].Status = st})

\* where a goroutine stands between the five queries of GetPackageStats
StatsPcs == {"stats1", "stats2", "stats3", "stats4"}

\* GetPackageStats, one of its five count queries in a step: the total,
\* then WAITING, PICKED, HANDED_OVER and EXPIRED; an error of a query ends
\* the call with no PackageStats
GetPackageStats(p, ok) ==
    /\ Ready
    /\ pc[p] \in {"idle"} \cup StatsPcs
    /\ IF ~ok
       THEN /\ stats' = [stats EXCEPT ![p] = ZeroStats]
            /\ Returns(p, "idle",
                   Result("GetPackageStats", 0, "", "ErrConnDone", NoPkg,
                          {"GetPackageStats"}, "", ""))
       ELSE IF pc[p] = "stats4"
       THEN /\ stats' = [stats EXCEPT ![p].Expired = RepoCountStatus(StatusExpired)]
            /\ Returns(p, "idle",
                   Result("GetPackageStats", 0, "", "nil", NoPkg,
                          {"GetPackageStats"}, "", ""))
       ELSE /\ stats' = [stats EXCEPT ![p] =
                   CASE pc[p] = "idle" ->
                            [ZeroStats EXCEPT !.Total = RepoCountAll]
                     [] pc[p] = "stats1" ->
                            [@ EXCEPT !.Waiting = RepoCountStatus(StatusWaiting)]
                     [] pc[p] = "stats2" ->
                            [@ EXCEPT !.Picked = RepoCountStatus(StatusPicked)]
                     [] pc[p] = "stats3" ->
                            [@ EXCEPT !.HandedOver = RepoCountStatus(StatusHandedOver)]]
            /\ pc' = [pc EXCEPT ![p] =
                   CASE pc[p] = "idle" -> "stats1"
                     [] pc[p] = "stats1" -> "stats2"
                     [] pc[p] = "stats2" -> "stats3"
                     [] pc[p] = "stats3" -> "stats4"]
            /\ last' = NoResult
            /\ UNCHANGED <<local, loaded, dropped>>
    /\ UNCHANGED <<packages, checkStatus, listed, now, nextId, stale, found, skipped, ticked>>

\* a query parameter of GET /packages: absent, or some text that
\* strconv.Atoi takes for the integer val or rejects
Absent == [kind |-> "absent", val |-> 0]

NotANumber == [kind |-> "text", val |-> 0]

Number(n) == [kind |-> "int", val |-> n]

\* the limit parameters a request may carry
LimitParams == {Absent, NotANumber, Number(-1), Number(0), Number(1), Number(2), Number(101)}

\* the offset parameters a request may carry
OffsetParams == {Absent, NotANumber, Number(-1), Number(0), Number(1)}

\* the status parameters a request may carry
StatusParams == {"", "WAITING", "PICKED", "EXPIRED", "PICKED_UP"}

\* the default of c.DefaultQuery("limit", "50"), also taken when Atoi fails
\* or the limit is not positive
DefaultLimit == 50

\* the largest limit ListPackages passes on
MaxLimit == 100

\* HandlerLimit without the cap at 100
HandlerLimit_NoCap(q) ==
    LET limit == IF q.kind = "absent" THEN DefaultLimit ELSE q.val
    IN  IF q.kind = "text" \/ limit <= 0 THEN DefaultLimit ELSE limit

\* limit as ListPackages computes it from the limit parameter
HandlerLimit(q) ==
    LET limit == IF q.kind = "absent" THEN DefaultLimit ELSE q.val
        l1 == IF q.kind = "text" \/ limit <= 0 THEN DefaultLimit ELSE limit
    IN  IF l1 > MaxLimit THEN MaxLimit ELSE l1

\* offset as ListPackages computes it from the offset parameter
HandlerOffset(q) ==
    LET offset == IF q.kind = "absent" THEN 0 ELSE q.val
    IN  IF q.kind = "text" \/ offset < 0 THEN 0 ELSE offset

\* status as ListPackages computes it: a pointer to one of the four
\* constants, or nil ("") for any other text
HandlerStatusFilter(statusStr) ==
    IF statusStr \in Statuses THEN statusStr ELSE ""

Min(a, b) == IF a < b THEN a ELSE b

\* RepoGetAll with ORDER BY created_at ASC
RepoGetAll_Ascending(limit, offset, status) ==
    LET ids == {i \in DOMAIN packages : status = "" \/ packages[i].Status = status}
        n == Cardinality(ids)
        orders == {f \in [1..n -> ids] :
                      /\ \A a, b \in 1..n : a # b => f[a] # f[b]
                      /\ \A a, b \in 1..n :
                            a < b => packages[f[a]].CreatedAt <= packages[f[b]].CreatedAt}
    IN  {[k \in 1..(Min(offset + limit, n) - Min(offset, n)) |->
              packages[f[Min(offset, n) + k]]] : f \in orders}

\* the results SELECT ... [WHERE status = $1] ORDER BY created_at DESC
\* LIMIT l OFFSET o may return: rows of equal created_at come in any order
RepoGetAll(limit, offset, status) ==
    LET ids == {i \in DOMAIN packages : status = "" \/ packages[i].Status = status}
        n == Cardinality(ids)
        orders == {f \in [1..n -> ids] :
                      /\ \A a, b \in 1..n : a # b => f[a] # f[b]
                      /\ \A a, b \in 1..n :
                            a < b => packages[f[a]].CreatedAt >= packages[f[b]].CreatedAt}
    IN  {[k \in 1..(Min(offset + limit, n) - Min(offset, n)) |->
              packages[f[Min(offset, n) + k]]] : f \in orders}

\* GET /packages: the handler's ListPackages, the use case's and GetAll
ListPackages(p, limitQ, offsetQ, statusStr, ok) ==
    /\ Ready
    /\ pc[p] = "idle"
    /\ LET limit == HandlerLimit(limitQ)
           offset == HandlerOffset(offsetQ)
           status == HandlerStatusFilter(statusStr)
       IN  IF ~ok
           THEN /\ listed' = NoList
                /\ Returns(p, "idle",
                       Result("ListPackages", 0, "", "ErrConnDone", NoPkg,
                              {"GetAll"}, "", ""))
           ELSE \E data \in RepoGetAll(limit, offset, status) :
                /\ listed' = [Data |-> data, Limit |-> limit, Offset |-> offset,
                              Count |-> Len(data),
                              Asked |-> <<limitQ, offsetQ, statusStr>>]
                /\ Returns(p, "idle",
                       Result("ListPackages", 0, "", "nil", NoPkg,
                              {"GetAll"}, "", ""))
    /\ UNCHANGED <<packages, checkStatus, stats, now, nextId, stale, found, skipped, ticked>>

\* the handlers that bind a body or parse an id before they call the use
\* case
BindingHandlers == {"CreatePackage", "GetPackage", "UpdatePackageStatus", "DeletePackage"}

\* a handler rejects the request before it calls the use case: ShouldBindJSON
\* or uuid.Parse returned an error
BadRequest(p, op) ==
    /\ Ready
    /\ pc[p] = "idle"
    /\ Returns(p, "idle", Result(op, 0, "", "ErrBadRequest", NoPkg, {}, "", ""))
    /\ UNCHANGED <<packages, checkStatus, stats, listed, now, nextId, stale, found, skipped, ticked>>

\* the HTTP status the handler of op answers with when the use case
\* returned err
HandlerStatus(op, err) ==
    IF err = "nil"
    THEN CASE op = "CreatePackage" -> 201
           [] op = "DeletePackage" -> 204
           [] OTHER -> 200
    ELSE IF err = "ErrBadRequest" THEN 400
    ELSE IF op = "CreatePackage" /\ err = "ErrDuplicateOrderRef" THEN 409
    ELSE IF /\ op \in {"GetPackage", "GetPackageByOrderRef",
                        "UpdatePackageStatus", "DeletePackage"}
            /\ err = "ErrPackageNotFound" THEN 404
    ELSE IF op = "UpdatePackageStatus" /\ err = "ErrInvalidStatusTransition" THEN 400
    ELSE 500

(* ---------------------------------------------------------------------- *)
(* The worker                                                              *)
(* ---------------------------------------------------------------------- *)

\* SweepQuery with the error of GetExpiredPackages taken for an empty result
SweepQuery_NilOnError(ok) ==
    /\ Ready
    /\ pc[Worker] = "start" \/ (pc[Worker] = "select" /\ ticked)
    /\ ticked' = IF pc[Worker] = "select" THEN FALSE ELSE ticked
    /\ skipped' = {}
    /\ IF ok
       THEN /\ found' = RepoGetExpiredPackages
            /\ stale' = RepoGetExpiredPackages
            /\ pc' = [pc EXCEPT ![Worker] = "sweep"]
            /\ last' = NoResult
       ELSE /\ UNCHANGED <<stale, found>>
            /\ pc' = [pc EXCEPT ![Worker] = "select"]
            /\ last' = Result("MarkExpiredPackages", 0, "", "nil", NoPkg,
                              {"GetExpiredPackages"}, "", "")
    /\ UNCHANGED <<packages, checkStatus, stats, listed, now, nextId, local, loaded, dropped>>

\* SweepQuery with a select that does not wait for ticker.C
SweepQuery_NoWait(ok) ==
    /\ Ready
    /\ pc[Worker] \in {"start", "select"}
    /\ ticked' = IF pc[Worker] = "select" THEN FALSE ELSE ticked
    /\ skipped' = {}
    /\ IF ok
       THEN /\ found' = RepoGetExpiredPackages
            /\ stale' = RepoGetExpiredPackages
            /\ pc' = [pc EXCEPT ![Worker] = "sweep"]
            /\ last' = NoResult
       ELSE /\ UNCHANGED <<stale, found>>
            /\ pc' = [pc EXCEPT ![Worker] = "select"]
            /\ last' = Result("MarkExpiredPackages", 0, "", "ErrConnDone", NoPkg,
                              {"GetExpiredPackages"}, "", "")
    /\ UNCHANGED <<packages, checkStatus, stats, listed, now, nextId, local, loaded, dropped>>

\* MarkExpiredPackages up to the loop: the initial check of main, or the
\* case <-ticker.C of its select
SweepQuery(ok) ==
    /\ Ready
    /\ pc[Worker] = "start" \/ (pc[Worker] = "select" /\ ticked)
    /\ ticked' = IF pc[Worker] = "select" THEN FALSE ELSE ticked
    /\ skipped' = {}
    /\ IF ok
       THEN /\ found' = RepoGetExpiredPackages
            /\ stale' = RepoGetExpiredPackages
            /\ pc' = [pc EXCEPT ![Worker] = "sweep"]
            /\ last' = NoResult
       ELSE /\ UNCHANGED <<stale, found>>
            /\ pc' = [pc EXCEPT ![Worker] = "select"]
            /\ last' = Result("MarkExpiredPackages", 0, "", "ErrConnDone", NoPkg,
                              {"GetExpiredPackages"}, "", "")
    /\ UNCHANGED <<packages, checkStatus, stats, listed, now, nextId, local, loaded, dropped>>

\* SweepLoad that takes the status the query saw for the status of the
\* row: the transition rule is not evaluated again
SweepLoad_Cached(id, ok) ==
    /\ Ready
    /\ pc[Worker] = "sweep"
    /\ id \in stale
    /\ stale' = stale \ {id}
    /\ found' = found
    /\ LET pkg == RepoGetByID(id)
           fails(err) == Returns(Worker, Back(Worker),
               Result("UpdatePackageStatus", id, "", err, NoPkg, {"GetByID"}, "",
                      StatusExpired))
       IN  IF ~ok THEN fails("ErrConnDone")
           ELSE IF pkg = NoPkg THEN fails("ErrPackageNotFound")
           ELSE /\ pc' = [pc EXCEPT ![Worker] = "update"]
                /\ local' = [local EXCEPT ![Worker] = Stamped(pkg, StatusExpired, now)]
                /\ loaded' = [loaded EXCEPT ![Worker] = pkg.Status]
                /\ dropped' = dropped
                /\ last' = NoResult
    /\ UNCHANGED <<packages, checkStatus, stats, listed, now, nextId, ticked>>
    /\ skipped' = IF pc'[Worker] = "update" THEN skipped ELSE skipped \cup {id}

\* one iteration of the loop, up to the call of Update; the rows come in
\* no stated order
SweepLoad(id, ok) ==
    /\ Ready
    /\ pc[Worker] = "sweep"
    /\ id \in stale
    /\ stale' = stale \ {id}
    /\ found' = found
    /\ UpdatePackageStatusLoad(Worker, id, StatusExpired, ok)
    /\ skipped' = IF pc'[Worker] = "update" THEN skipped ELSE skipped \cup {id}

\* the Update of that iteration; its error is dropped by the loop
SweepPersist(ok) ==
    UpdatePackageStatusPersist(Worker, ok)

\* the loop is over: MarkExpiredPackages returns nil, main selects again
SweepReturn ==
    /\ Ready
    /\ pc[Worker] = "sweep"
    /\ stale = {}
    /\ found' = {}
    /\ skipped' = {}
    /\ pc' = [pc EXCEPT ![Worker] = "select"]
    /\ last' = Result("MarkExpiredPackages", 0, "", "nil", NoPkg,
                      {"GetExpiredPackages"}, "", "")
    /\ UNCHANGED <<packages, checkStatus, stats, listed, now, nextId, local, loaded, dropped, stale, ticked>>

\* case <-interrupt of the select: main returns
WorkerInterrupt ==
    /\ Ready
    /\ pc[Worker] = "select"
    /\ pc' = [pc EXCEPT ![Worker] = "stopped"]
    /\ last' = NoResult
    /\ UNCHANGED <<packages, checkStatus, stats, listed, now, nextId, local, loaded, dropped, stale, found, skipped, ticked>>

\* the k-th instant of the clock, in hours: it advances in turn by exactly
\* the expiry threshold and by one hour, so both sides of the threshold
\* of GetExpiredPackages are visited
Instant(k) == 1 + ExpiryHours * ((k + 1) \div 2) + (k \div 2)

\* time passes, at most n times; the hourly ticker has put a tick into
\* ticker.C
Tick(n) ==
    /\ Ready
    /\ \E k \in 0..(n - 1) : now = Instant(k) /\ now' = Instant(k + 1)
    /\ ticked' = TRUE
    /\ last' = NoResult
    /\ UNCHANGED <<packages, checkStatus, stats, listed, nextId, pc, local, loaded, dropped, stale, found, skipped>>

\* the ticker goes on after the last instant the clock tells apart: one
\* more tick is in ticker.C, and no package has come to be older than the
\* threshold
TickOn ==
    /\ Ready
    /\ now = Instant(MaxWorkerTicks)
    /\ ~ticked
    /\ ticked' = TRUE
    /\ last' = NoResult
    /\ UNCHANGED <<packages, checkStatus, stats, listed, now, nextId, pc, local, loaded, dropped, stale, found, skipped>>

(* ---------------------------------------------------------------------- *)
(* The system                                                              *)
(* ---------------------------------------------------------------------- *)

Ids == 1..MaxPkgs

Init ==
    /\ packages = [i \in {} |-> NoPkg]
    /\ checkStatus \in BOOLEAN
    /\ now = Instant(0)
    /\ nextId = 1
    /\ pc = [p \in Procs \cup {Worker} |-> IF p = Worker THEN "start" ELSE "idle"]
    /\ local = [p \in Procs \cup {Worker} |-> NoPkg]
    /\ loaded = [p \in Procs \cup {Worker} |-> ""]
    /\ dropped = [p \in Procs \cup {Worker} |-> "nil"]
    /\ stale = {}
    /\ found = {}
    /\ skipped = {}
    /\ stats = [p \in Procs \cup {Worker} |-> ZeroStats]
    /\ listed = NoList
    /\ ticked = FALSE
    /\ last = NoResult

\* the caller takes what the call returned, before anything else happens:
\* the handler writes the response, the loop of MarkExpiredPackages
\* continues, main logs
Deliver ==
    /\ ~Ready
    /\ last' = NoResult
    /\ stats' = [p \in DOMAIN stats |-> IF pc[p] \in StatsPcs THEN stats[p] ELSE ZeroStats]
    /\ listed' = NoList
    /\ UNCHANGED <<packages, checkStatus, now, nextId, pc, local, loaded, dropped, stale, found, skipped, ticked>>

\* one step of a request goroutine
Request(p) ==
    \/ \E ref \in OrderRefs, drv \in DriverCodes, ok \in BOOLEAN :
           CreatePackageLookup(p, ref, drv, ok)
    \/ \E ok \in BOOLEAN : CreatePackageInsert(p, ok)
    \/ \E id \in Ids, st \in RequestStatuses, ok \in BOOLEAN :
           UpdateRequest(p, id, st, ok)
    \/ \E ok \in BOOLEAN : UpdatePackageStatusPersist(p, ok)
    \/ \E id \in Ids, ok \in BOOLEAN : DeletePackageLoad(p, id, ok)
    \/ \E ok \in BOOLEAN : DeletePackageExec(p, ok)
    \/ \E id \in Ids, ok \in BOOLEAN : GetPackage(p, id, ok)
    \/ \E ref \in OrderRefs, ok \in BOOLEAN : GetPackageByOrderRef(p, ref, ok)

\* one step of the worker
WorkerStep ==
    \/ \E ok \in BOOLEAN : SweepQuery(ok)
    \/ \E id \in Ids, ok \in BOOLEAN : SweepLoad(id, ok)
    \/ \E ok \in BOOLEAN : SweepPersist(ok)
    \/ SweepReturn
    \/ WorkerInterrupt

\* the API server with its request goroutines
Next ==
    \/ \E p \in Procs : Request(p)
    \/ Tick(MaxTicks)
    \/ Deliver

Spec == Init /\ [][Next]_vars

\* the API server serving one request at a time
NextSeq ==
    \/ Request("r1")
    \/ Tick(MaxTicks)
    \/ Deliver

SpecSeq == Init /\ [][NextSeq]_vars

\* one step of a request goroutine that serves POST /packages and
\* DELETE /packages/:id only
CreateDelete(p) ==
    \/ \E ref \in OrderRefs, drv \in DriverCodes, ok \in BOOLEAN :
           CreatePackageLookup(p, ref, drv, ok)
    \/ \E ok \in BOOLEAN : CreatePackageInsert(p, ok)
    \/ \E id \in Ids, ok \in BOOLEAN : DeletePackageLoad(p, id, ok)
    \/ \E ok \in BOOLEAN : DeletePackageExec(p, ok)

\* the API server under create and delete requests alone
NextCreate ==
    \/ \E p \in Procs : CreateDelete(p)
    \/ Tick(MaxTicks)
    \/ Deliver

SpecCreate == Init /\ [][NextCreate]_vars

\* the API server with one request goroutine, and the worker
NextWorker ==
    \/ Request("r1")
    \/ WorkerStep
    \/ Tick(MaxWorkerTicks)
    \/ Deliver

SpecWorker == Init /\ [][NextWorker]_vars

\* the worker is inside MarkExpiredPackages
Sweeping == pc[Worker] \in {"sweep", "update"}

\* a step of the request goroutine before the worker has started
QuietRequest == pc[Worker] = "start" /\ Request("r1")

\* a step of the worker while no request is in flight
QuietWorkerStep == pc["r1"] = "idle" /\ WorkerStep

\* the worker running alone on the table the requests have left
NextSweep ==
    \/ QuietRequest
    \/ QuietWorkerStep
    \/ Tick(MaxWorkerTicks)
    \/ Deliver

SpecSweep == Init /\ [][NextSweep]_vars

\* the statuses the requests of a driver ask for: the pickup and the
\* handover
DriverStatuses == {StatusPicked, StatusHandedOver}

\* one step of a request goroutine that serves a driver, its store calls
\* all succeeding
LiveRequest(p) ==
    \/ \E ref \in OrderRefs, drv \in DriverCodes : CreatePackageLookup(p, ref, drv, TRUE)
    \/ CreatePackageInsert(p, TRUE)
    \/ \E id \in Ids, st \in DriverStatuses : UpdateRequest(p, id, st, TRUE)
    \/ UpdatePackageStatusPersist(p, TRUE)
    \/ \E id \in Ids : DeletePackageLoad(p, id, TRUE)
    \/ DeletePackageExec(p, TRUE)

\* one step of the worker when no store call fails and no signal arrives
WorkerRuns ==
    \/ SweepQuery(TRUE)
    \/ \E id \in Ids : SweepLoad(id, TRUE)
    \/ SweepPersist(TRUE)
    \/ SweepReturn

\* the ticker of main: an hour has passed
Ticker == Tick(MaxWorkerTicks) \/ TickOn

\* the API server with one request goroutine, and the worker running for
\* ever on a store that does not fail
NextLive ==
    \/ LiveRequest("r1")
    \/ WorkerRuns
    \/ Ticker
    \/ Deliver

\* the worker is a process of its own and the ticker fires every hour:
\* neither waits for the requests to end, and a returned result is taken
\* by its caller
Fairness ==
    /\ WF_vars(Deliver)
    /\ SF_vars(Ticker)
    /\ SF_vars(WorkerRuns)

SpecLive == Init /\ [][NextLive]_vars /\ Fairness

\* one step of a request goroutine that serves GET /packages/stats only
StatsRequest(p) == \E ok \in BOOLEAN : GetPackageStats(p, ok)

\* one step of a request goroutine that serves GET /packages, or rejects a
\* request in its handler
ListRequest(p) ==
    \/ \E limitQ \in LimitParams, offsetQ \in OffsetParams,
          statusStr \in StatusParams, ok \in BOOLEAN :
           ListPackages(p, limitQ, offsetQ, statusStr, ok)
    \/ \E op \in BindingHandlers : BadRequest(p, op)

\* the API server serving one request at a time, every route
NextApi ==
    \/ Request("r1")
    \/ StatsRequest("r1")
    \/ ListRequest("r1")
    \/ Tick(MaxTicks)
    \/ Deliver

SpecApi == Init /\ [][NextApi]_vars

\* the API server with one goroutine that changes packages and one that
\* serves GET /packages/stats
NextStats ==
    \/ Request("r1")
    \/ StatsRequest("r2")
    \/ Tick(MaxTicks)
    \/ Deliver

SpecStats == Init /\ [][NextStats]_vars

(* ---------------------------------------------------------------------- *)
(* Properties                                                              *)
(* ---------------------------------------------------------------------- *)

\* the transition graph as the specification draws it
TransitionGraph ==
    {<<"WAITING", "PICKED">>, <<"WAITING", "EXPIRED">>,
     <<"PICKED", "HANDED_OVER">>, <<"PICKED", "EXPIRED">>}

Terminal == {"HANDED_OVER", "EXPIRED"}

Stored == DOMAIN packages

\* the ids stored before and after a step
Kept == DOMAIN packages \cap DOMAIN packages'

C2_ValidUpdateSucceeds ==
    [][(last'.op = "UpdatePackageStatus" /\ last'.err # "ErrConnDone"
            /\ <<last'.cur, last'.new>> \in TransitionGraph)
        => /\ last'.err = "nil"
           /\ last'.ret.Status = last'.new
           /\ last'.ret.ID \in Kept
           /\ LET old == packages[last'.ret.ID]
                  new == packages'[last'.ret.ID]
              IN  /\ new = last'.ret
                  /\ new.Status = last'.new
                  /\ IF last'.new = "PICKED"
                     THEN new.PickedUpAt # NullTime
                     ELSE new.PickedUpAt = old.PickedUpAt
                  /\ IF last'.new = "HANDED_OVER"
                     THEN new.HandedOverAt # NullTime
                     ELSE new.HandedOverAt = old.HandedOverAt
                  /\ IF last'.new = "EXPIRED"
                     THEN new.ExpiredAt # NullTime
                     ELSE new.ExpiredAt = old.ExpiredAt]_vars

\* C3: the step in which UpdatePackageStatus returns
\* ErrInvalidStatusTransition leaves the table as it was, and that call has
\* not invoked Update.
C3_RejectedLeavesRecord ==
    [][last'.err = "ErrInvalidStatusTransition"
        => /\ packages' = packages
           /\ "Update" \notin last'.calls]_vars

\* C3 witness: a PICKED record, and the request to move it back to WAITING
\* was rejected
C3_Witness ==
    /\ last.err = "ErrInvalidStatusTransition"
    /\ last.cur = "PICKED"
    /\ last.new = "WAITING"
    /\ \E i \in Stored : packages[i].Status = "PICKED" /\ packages[i].PickedUpAt # NullTime

\* C4, as claimed: every change of a stored status follows an edge of the
\* transition graph.
C4_StatusMovesForward ==
    [][\A i \in Kept :
          packages'[i].Status # packages[i].Status
              => <<packages[i].Status, packages'[i].Status>> \in TransitionGraph]_vars

\* C5, as claimed: a stored package that is HANDED_OVER or EXPIRED is
\* changed by no step but its deletion.
C5_TerminalIsFrozen ==
    [][\A i \in Kept :
          packages[i].Status \in Terminal => packages'[i] = packages[i]]_vars

\* C6, as claimed: a nullable timestamp that is set keeps its value for as
\* long as the package is stored.
C6_TimestampsAreKept ==
    [][\A i \in Kept :
          /\ packages[i].PickedUpAt # NullTime
                => packages'[i].PickedUpAt = packages[i].PickedUpAt
          /\ packages[i].HandedOverAt # NullTime
                => packages'[i].HandedOverAt = packages[i].HandedOverAt
          /\ packages[i].ExpiredAt # NullTime
                => packages'[i].ExpiredAt = packages[i].ExpiredAt]_vars

\* the nullable timestamps a status allows
TimestampsAgree(r) ==
    CASE r.Status = "WAITING" ->
            r.PickedUpAt = NullTime /\ r.HandedOverAt = NullTime /\ r.ExpiredAt = NullTime
      [] r.Status = "PICKED" ->
            r.PickedUpAt # NullTime /\ r.HandedOverAt = NullTime /\ r.ExpiredAt = NullTime
      [] r.Status = "HANDED_OVER" ->
            r.PickedUpAt # NullTime /\ r.HandedOverAt # NullTime /\ r.ExpiredAt = NullTime
      [] r.Status = "EXPIRED" ->
            r.ExpiredAt # NullTime /\ r.HandedOverAt = NullTime
      [] OTHER -> FALSE

\* C7, as claimed: the nullable timestamps of every stored package agree
\* with its status, and a package that expires has picked_up_at set exactly
\* when its stored status was PICKED before.
C7_TimestampsAgreeWithStatus ==
    /\ [](\A i \in Stored : TimestampsAgree(packages[i]))
    /\ [][\A i \in Kept :
            (packages'[i].Status = "EXPIRED" /\ packages[i].Status # "EXPIRED")
                => (packages'[i].PickedUpAt # NullTime <=> packages[i].Status = "PICKED")]_vars

\* C8: no two stored packages have the same order_reference.
C8_OrderRefUnique ==
    \A i, j \in Stored : i # j => packages[i].OrderRef # packages[j].OrderRef

\* C8 witness: the lookup of a create found no package with its
\* reference, and before its insert another create has stored one
C8_Witness ==
    \E p \in Procs :
        /\ pc[p] = "create"
        /\ dropped[p] = "nil"
        /\ \E i \in Stored : packages[i].OrderRef = local[p].OrderRef

\* C9: a CreatePackage whose lookup returned without error goes on to the
\* insert only if no stored package has its reference; and the step in
\* which CreatePackage returns ErrDuplicateOrderRef returns no record, has
\* not invoked Create and leaves the table as it was.
C9_DuplicateRejected ==
    [][/\ \A p \in Procs :
            (pc[p] = "idle" /\ pc'[p] = "create" /\ dropped'[p] = "nil")
                => \A i \in Stored : packages[i].OrderRef # local'[p].OrderRef
       /\ last'.err = "ErrDuplicateOrderRef"
            => /\ last'.ret = NoPkg
               /\ "Create" \notin last'.calls
               /\ packages' = packages]_vars

\* C9 witness: a create was rejected as a duplicate of a stored package
C9_Witness ==
    /\ last.op = "CreatePackage"
    /\ last.err = "ErrDuplicateOrderRef"
    /\ Stored # {}

\* C10, as claimed: CreatePackage with an empty order_reference returns
\* before the store is accessed: no goroutine is past GetByOrderRef with an
\* empty reference, and no package with an empty reference is stored.
C10_EmptyRefNoStoreAccess ==
    /\ \A p \in Procs : pc[p] = "create" => local[p].OrderRef # ""
    /\ \A i \in Stored : packages[i].OrderRef # ""

\* the request goroutines that return from CreatePackage's insert in a step
Inserting == {p \in Procs : pc[p] = "create" /\ pc'[p] = "idle"}

\* C11, as claimed: a CreatePackage that returns without error stores and
\* returns a record whose id no stored package had, with the requested
\* order reference and driver code, status WAITING, the three nullable
\* timestamps null, and created_at equal to updated_at.
C11_CreateStoresFreshRecord ==
    [][\A p \in Inserting :
          last'.err = "nil"
              => LET r == last'.ret
                 IN  /\ r.ID \notin DOMAIN packages
                     /\ r.ID \in DOMAIN packages'
                     /\ packages'[r.ID] = r
                     /\ \A i \in Kept : packages'[i] = packages[i]
                     /\ r.OrderRef = local[p].OrderRef
                     /\ r.DriverCode = local[p].DriverCode
                     /\ r.Status = "WAITING"
                     /\ r.PickedUpAt = NullTime
                     /\ r.HandedOverAt = NullTime
                     /\ r.ExpiredAt = NullTime
                     /\ r.CreatedAt = r.UpdatedAt]_vars

\* C12, as claimed: a CreatePackage whose insert the connection did not cut
\* and whose order reference a stored package holds at that moment returns
\* ErrDuplicateOrderRef.
C12_DuplicateSurfacedDistinctly ==
    [][\A p \in Inserting :
          (/\ last'.err # "ErrConnDone"
           /\ \E i \in Stored : packages[i].OrderRef = local[p].OrderRef)
              => last'.err = "ErrDuplicateOrderRef"]_vars

\* C13, as claimed: a request call whose store call failed returns that
\* failure and writes nothing: no CreatePackage goes on to its insert after
\* GetByOrderRef failed, and the step that returns the failure leaves the
\* table as it was.
C13_NoFailureAbsorbed ==
    /\ [](\A p \in Procs : pc[p] = "create" => dropped[p] = "nil")
    /\ [][(last'.err = "ErrConnDone" /\ last'.op # "MarkExpiredPackages")
            => packages' = packages]_vars

\* the call that returns in a step returns out of its first store call
ReturnsFromLoad == Cardinality(last'.calls) = 1 /\ last'.err # "ErrConnDone"

\* C14: GetPackage, UpdatePackageStatus and DeletePackage return
\* ErrPackageNotFound exactly when no stored package has the id, and
\* GetPackageByOrderRef exactly when none has the reference; that step
\* leaves the table as it was; no call goes on to its write with an id that
\* is not stored; and GetPackage and GetPackageByOrderRef of a stored
\* package return its row.  (Store calls cut by the connection aside.)
C14_AbsentIsNotFound ==
    [][/\ (last'.op \in {"GetPackage", "UpdatePackageStatus", "DeletePackage"}
              /\ ReturnsFromLoad)
            => /\ last'.err = "ErrPackageNotFound" <=> last'.id \notin Stored
               /\ last'.err = "ErrPackageNotFound" => packages' = packages
               /\ (last'.op = "GetPackage" /\ last'.id \in Stored)
                    => last'.err = "nil" /\ last'.ret = packages[last'.id]
       /\ (last'.op = "GetPackageByOrderRef" /\ ReturnsFromLoad)
            => LET holders == {i \in Stored : packages[i].OrderRef = last'.ref}
               IN  /\ last'.err = "ErrPackageNotFound" <=> holders = {}
                   /\ last'.err = "ErrPackageNotFound" => packages' = packages
                   /\ holders # {}
                        => /\ last'.err = "nil"
                           /\ \E i \in holders : last'.ret = packages[i]
       /\ \A p \in Procs :
            (pc[p] = "idle" /\ pc'[p] \in {"update", "delete"})
                => local'[p].ID \in Stored]_vars

\* C14 witness: an update of an id that no stored package has was answered
\* with ErrPackageNotFound while another package is stored
C14_Witness ==
    /\ last.op = "UpdatePackageStatus"
    /\ last.err = "ErrPackageNotFound"
    /\ last.id \notin Stored
    /\ Stored # {}

\* C15, as claimed: an UpdatePackageStatus or DeletePackage whose write
\* finds no row with its id returns ErrPackageNotFound (the connection
\* aside).
C15_WriteOfAbsentFails ==
    [][\A p \in Procs :
          (/\ pc[p] \in {"update", "delete"}
           /\ pc'[p] = "idle"
           /\ local[p].ID \notin Stored
           /\ last'.err # "ErrConnDone")
              => last'.err = "ErrPackageNotFound"]_vars

\* C16: DeletePackage rejects no stored package, whatever its status; its
\* Delete, unless the connection cuts it, removes the row, leaves every
\* other row as it was and makes the table one row smaller, and GetByID of
\* the id then finds nothing.
C16_DeleteRemoves ==
    [][/\ (last'.op = "DeletePackage" /\ ReturnsFromLoad)
            => last'.id \notin Stored
       /\ \A p \in Procs :
            (/\ pc[p] = "delete"
             /\ pc'[p] = "idle"
             /\ local[p].ID \in Stored
             /\ last'.err # "ErrConnDone")
                => /\ last'.err = "nil"
                   /\ DOMAIN packages' = Stored \ {local[p].ID}
                   /\ \A i \in DOMAIN packages' : packages'[i] = packages[i]
                   /\ Cardinality(DOMAIN packages') = Cardinality(Stored) - 1
                   /\ local[p].ID \notin DOMAIN packages']_vars

\* C16 witness: a HANDED_OVER package was deleted and another package is
\* still stored
C16_Witness ==
    /\ last.op = "DeletePackage"
    /\ last.err = "nil"
    /\ last.cur = "HANDED_OVER"
    /\ last.id \notin Stored
    /\ Stored # {}

\* the stored packages that are WAITING or PICKED and were created more
\* than 24 hours ago
StaleNow ==
    {i \in Stored :
        /\ packages[i].Status \in {"WAITING", "PICKED"}
        /\ now - packages[i].CreatedAt > 24}

\* a step in which MarkExpiredPackages is entered
SweepStarts ==
    /\ ~Sweeping
    /\ pc'[Worker] = "sweep" \/ (last'.op = "MarkExpiredPackages" /\ last' # last)

\* a step in which the loop of MarkExpiredPackages ends
SweepEnds == pc[Worker] = "sweep" /\ pc'[Worker] = "select"

\* C17: with no request served meanwhile, the query of a sweep returns
\* exactly the packages that are WAITING or PICKED and older than 24 hours;
\* while the sweep runs no row is added or removed, rows outside that set
\* are unchanged in every field and a row of the set changes only by
\* becoming EXPIRED; and when a sweep ends in which no call failed, every
\* package of the set is EXPIRED with expired_at set.
C17_SweepExpiresTheStale ==
    [][/\ (~Sweeping /\ pc'[Worker] = "sweep")
            => found' = StaleNow /\ packages' = packages
       /\ Sweeping
            => /\ DOMAIN packages' = Stored
               /\ \A i \in Stored \ found : packages'[i] = packages[i]
               /\ \A i \in Stored \cap found :
                     \/ packages'[i] = packages[i]
                     \/ /\ packages[i].Status \in {"WAITING", "PICKED"}
                        /\ packages'[i].Status = "EXPIRED"
       /\ (SweepEnds /\ skipped = {})
            => \A i \in found :
                  /\ i \in Stored
                  /\ packages[i].Status = "EXPIRED"
                  /\ packages[i].ExpiredAt # NullTime]_vars

\* C17 witness: a sweep in which no call failed is at its end; it has
\* expired a package, and a younger PICKED package is as it was
C17_Witness ==
    /\ pc[Worker] = "sweep"
    /\ stale = {}
    /\ skipped = {}
    /\ \E i \in found : packages[i].Status = "EXPIRED"
    /\ \E j \in Stored \ found :
          /\ packages[j].Status = "PICKED"
          /\ packages[j].ExpiredAt = NullTime
          /\ now - packages[j].CreatedAt <= 24

\* a step of the worker inside MarkExpiredPackages
SweepStep ==
    /\ Sweeping
    /\ pc'[Worker] # pc[Worker] \/ stale' # stale \/ skipped' # skipped

\* C18: when an UpdatePackageStatus of the sweep returns an error, whichever
\* it is, the worker stays in the loop, the table is as it was and the
\* records not yet visited are still to be visited; a record leaves the
\* records to be visited only by being attempted; an Update of the sweep
\* that returns nil has left its row EXPIRED; and the loop ends only when
\* every record the query returned was attempted, and MarkExpiredPackages
\* then returns nil.
C18_SweepGoesOn ==
    [][/\ (SweepStep /\ last'.op = "UpdatePackageStatus" /\ last'.err # "nil")
            => /\ pc'[Worker] = "sweep"
               /\ packages' = packages
               /\ found' = found
               /\ stale' = stale \ {last'.id}
               /\ skipped' = skipped \cup {last'.id}
       /\ (Sweeping /\ stale' # stale)
            => \E id \in stale :
                  /\ stale' = stale \ {id}
                  /\ IF pc'[Worker] = "update"
                     THEN local'[Worker].ID = id
                     ELSE last'.op = "UpdatePackageStatus" /\ last'.id = id
       /\ (SweepStep /\ pc[Worker] = "update" /\ last'.err = "nil")
            => /\ skipped' = skipped
               /\ local[Worker].ID \in Stored
                    => packages'[local[Worker].ID].Status = "EXPIRED"
       /\ SweepEnds
            => /\ stale = {}
               /\ last'.op = "MarkExpiredPackages"
               /\ last'.err = "nil"]_vars

\* C18 witness: in a sweep that skipped a record, the attempt on the last
\* record has just returned nil and the record is EXPIRED
C18_Witness ==
    /\ pc[Worker] = "sweep"
    /\ stale = {}
    /\ skipped # {}
    /\ last.op = "UpdatePackageStatus"
    /\ last.err = "nil"
    /\ last.id \in found \ skipped
    /\ last.id \in Stored
    /\ packages[last.id].Status = "EXPIRED"

\* C19: MarkExpiredPackages returns an error only out of its query, the
\* error is the query's and the table is as it was; a sweep returns out of
\* its query in no other case; and a sweep whose query returned no record
\* never reaches Update, leaves the table as it was and returns nil.
C19_QueryFailureAndEmptyResult ==
    [][/\ (last'.op = "MarkExpiredPackages" /\ last' # last /\ ~Sweeping)
            => /\ last'.err = "ErrConnDone"
               /\ last'.calls = {"GetExpiredPackages"}
               /\ packages' = packages
               /\ pc'[Worker] = "select"
       /\ (last'.op = "MarkExpiredPackages" /\ last'.err # "nil") => ~Sweeping
       /\ (Sweeping /\ found = {})
            => /\ pc[Worker] = "sweep"
               /\ pc'[Worker] \in {"sweep", "select"}
               /\ packages' = packages
               /\ pc'[Worker] = "select"
                    => last'.op = "MarkExpiredPackages" /\ last'.err = "nil"]_vars

\* C19 witness: the query of a sweep failed while a stale package is
\* stored, and the sweep has returned the failure
C19_Witness ==
    /\ last.op = "MarkExpiredPackages"
    /\ last.err = "ErrConnDone"
    /\ pc[Worker] = "select"
    /\ StaleNow # {}

\* C20: the worker's first step is a sweep, which waits for no tick; from
\* its select a sweep starts only by taking the tick out of ticker.C, also
\* after a sweep that returned an error; a sweep starts only when none
\* runs; and once the interrupt is taken the worker stays stopped: it starts
\* no sweep and changes no row.
C20_WorkerSchedule ==
    /\ [](/\ (pc[Worker] = "start" /\ Ready /\ pc["r1"] = "idle")
               => ENABLED SweepQuery(TRUE)
          /\ (pc[Worker] = "select" /\ ticked /\ Ready /\ pc["r1"] = "idle")
               => ENABLED SweepQuery(TRUE))
    /\ [][/\ (pc[Worker] = "start" /\ pc'[Worker] # "start") => SweepStarts
          /\ (SweepStarts /\ pc[Worker] # "start")
               => pc[Worker] = "select" /\ ticked /\ ~ticked'
          /\ (Sweeping /\ last'.op = "MarkExpiredPackages") => SweepEnds
          /\ pc[Worker] = "stopped"
               => /\ pc'[Worker] = "stopped"
                  /\ packages' = packages
                  /\ UNCHANGED <<stale, found, skipped>>
          /\ pc'[Worker] = "stopped" => pc[Worker] \in {"select", "stopped"}]_vars

\* C20 witness: a sweep that a tick started, the tick taken out of
\* ticker.C, has found a stale package
C20_Witness ==
    /\ pc[Worker] = "sweep"
    /\ ~ticked
    /\ now = Instant(2)
    /\ found # {}

\* C21: with the worker running, the ticker firing and no store call failing,
\* a package that is WAITING or PICKED and was created more than 24 hours
\* ago does not stay so for ever: it is eventually EXPIRED, or HANDED_OVER,
\* or deleted; and whenever the worker starts a sweep it ends it.
C21_StaleIsExpired ==
    /\ \A i \in Ids :
          (i \in StaleNow) ~> (i \notin Stored \/ packages[i].Status \in Terminal)
    /\ Sweeping ~> ~Sweeping

\* C21 witness: the sweep has expired a package that was WAITING and
\* older than 24 hours
C21_Witness ==
    /\ last.op = "UpdatePackageStatus"
    /\ last.err = "nil"
    /\ last.cur = "WAITING"
    /\ last.id \in found
    /\ last.id \in Stored
    /\ packages[last.id].Status = "EXPIRED"
    /\ now - packages[last.id].CreatedAt > 24

\* the PackageStats that describes the table
StoreStats ==
    [Total      |-> Cardinality(Stored),
     Waiting    |-> Cardinality({i \in Stored : packages[i].Status = "WAITING"}),
     Picked     |-> Cardinality({i \in Stored : packages[i].Status = "PICKED"}),
     HandedOver |-> Cardinality({i \in Stored : packages[i].Status = "HANDED_OVER"}),
     Expired    |-> Cardinality({i \in Stored : packages[i].Status = "EXPIRED"})]

\* C22: when requests are served one at a time, a GetPackageStats that
\* returns without error returns the five counters of the table as it
\* is: total is the number of stored packages, and waiting, picked,
\* handed_over and expired are the numbers of stored packages of that
\* status; one that returns an error returns no counters.
C22_StatsDescribeTheStore ==
    last.op = "GetPackageStats"
        => stats["r1"] = IF last.err = "nil" THEN StoreStats ELSE ZeroStats

\* C22 witness: GetPackageStats has returned the counters of a table that
\* holds an EXPIRED package and one of another status
C22_Witness ==
    /\ last.op = "GetPackageStats"
    /\ last.err = "nil"
    /\ stats["r1"].Total = 2
    /\ stats["r1"].Expired = 1
    /\ stats["r1"].Waiting + stats["r1"].HandedOver = 1

\* a ListPackages has returned a list
Listed == last.op = "ListPackages" /\ last.err = "nil"

\* C23 as stated: the limit used is the requested limit clamped into
\* [1,100], 50 when none is given; the offset used is the requested offset
\* raised to at least 0, 0 when none is given; and no list holds more than
\* 100 records.
C23_LimitIsClamped ==
    Listed =>
        LET l == listed.Asked[1]
            o == listed.Asked[2]
        IN  /\ l.kind = "absent" => listed.Limit = 50
            /\ l.kind = "int" =>
                  listed.Limit = (IF l.val < 1 THEN 1
                                  ELSE IF l.val > 100 THEN 100 ELSE l.val)
            /\ o.kind = "absent" => listed.Offset = 0
            /\ o.kind = "int" => listed.Offset = (IF o.val < 0 THEN 0 ELSE o.val)
            /\ Len(listed.Data) <= 100

\* C23, amended: the limit used is the requested limit when that is an
\* integer from 1 to 100, 100 when it is a larger integer, and 50 when none
\* is given or it is not a positive integer; the offset used is the
\* requested offset when that is an integer of at least 0, and 0 otherwise;
\* the list holds no more records than the limit used, so never more than
\* 100, and count is the number of records it holds.
C23_LimitOrDefault ==
    Listed =>
        LET l == listed.Asked[1]
            o == listed.Asked[2]
        IN  /\ listed.Limit =
                  (CASE l.kind = "int" /\ l.val \in 1..100 -> l.val
                     [] l.kind = "int" /\ l.val > 100 -> 100
                     [] OTHER -> 50)
            /\ listed.Offset = (IF o.kind = "int" /\ o.val >= 0 THEN o.val ELSE 0)
            /\ Len(listed.Data) <= listed.Limit
            /\ listed.Limit <= 100
            /\ listed.Count = Len(listed.Data)

\* C23 witness: a list was asked for with limit 0 and offset -1 and was
\* answered with limit 50 and offset 0, and both stored packages
C23_Witness ==
    /\ Listed
    /\ listed.Asked[1] = Number(0)
    /\ listed.Asked[2] = Number(-1)
    /\ listed.Limit = 50
    /\ listed.Offset = 0
    /\ Len(listed.Data) = 2

\* the stored records a list with the status parameter st is about: those
\* of status st when st is a status, all when there is no parameter
Eligible(st) ==
    {packages[i] : i \in {j \in Stored : st = "" \/ packages[j].Status = st}}

FailureKind(err) ==
    CASE err = "ErrBadRequest" -> "ValidationError"
      [] err = "ErrDuplicateOrderRef" -> "DuplicateOrderRef"
      [] err = "ErrPackageNotFound" -> "NotFound"
      [] err = "ErrInvalidStatusTransition" -> "InvalidTransition"
      [] OTHER -> "StoreError"

\* the failures a request can end in: the handler and what it got
Failures ==
    {[op |-> "CreatePackage", err |-> e] :
        e \in {"ErrBadRequest", "ErrDuplicateOrderRef", "ErrConnDone"}}
    \cup {[op |-> "UpdatePackageStatus", err |-> e] :
        e \in {"ErrBadRequest", "ErrPackageNotFound",
               "ErrInvalidStatusTransition", "ErrConnDone"}}
    \cup {[op |-> o, err |-> e] :
        o \in {"GetPackage", "DeletePackage"},
        e \in {"ErrBadRequest", "ErrPackageNotFound", "ErrConnDone"}}
    \cup {[op |-> "GetPackageByOrderRef", err |-> e] :
        e \in {"ErrPackageNotFound", "ErrConnDone"}}
    \cup {[op |-> o, err |-> "ErrConnDone"] : o \in {"ListPackages", "GetPackageStats"}}

\* C25: the response signal of a failed request tells its kind: no request
\* that fails in another of the five kinds (ValidationError,
\* DuplicateOrderRef, NotFound, InvalidTransition, StoreError) is answered
\* with the same status code.
C25_FailureKindsAreDistinct ==
    last.err # "nil" =>
        \A f \in Failures :
            HandlerStatus(f.op, f.err) = HandlerStatus(last.op, last.err)
                => FailureKind(f.err) = FailureKind(last.err)

\* C26: no step changes the id, order_reference, driver_code or created_at
\* of a stored package, and an UpdatePackageStatus that returns without
\* error leaves the updated_at of its package not earlier than it was.
C26_IdentityAndUpdatedAt ==
    [][\A i \in Kept :
          /\ packages'[i].ID = packages[i].ID
          /\ packages'[i].OrderRef = packages[i].OrderRef
          /\ packages'[i].DriverCode = packages[i].DriverCode
          /\ packages'[i].CreatedAt = packages[i].CreatedAt
          /\ (last'.op = "UpdatePackageStatus" /\ last'.err = "nil" /\ last'.id = i)
                => packages'[i].UpdatedAt >= packages[i].UpdatedAt]_vars

\* C27: every status the service tries to write is one the CHECK
\* constraint of the packages table admits: an UpdatePackageStatus that
\* reaches Update, its transition accepted by the rule, carries a status of
\* the table, and no call is rejected by the constraint.
C27_StatusesAdmittedByTable ==
    /\ (checkStatus /\ last.op = "UpdatePackageStatus" /\ "Update" \in last.calls)
          => last.new \in TableStatuses
    /\ last.err # "check_violation"

\* C28: in the PackageStats a GetPackageStats returns, total is the sum of
\* waiting, picked, handed_over and expired, whatever other requests did
\* between its five count queries.
C28_StatsTotalIsTheSum ==
    (last.op = "GetPackageStats" /\ last.err = "nil") =>
        \A p \in Procs :
            stats[p].Total = stats[p].Waiting + stats[p].Picked
                                + stats[p].HandedOver + stats[p].Expired

\* C29: when the sweep comes to a record its query returned, it decides on
\* the row as it is then: if the row is gone or is HANDED_OVER or EXPIRED,
\* the attempt returns ErrPackageNotFound or ErrInvalidStatusTransition
\* (or the error of a failed GetByID), the table is as it was, and the
\* worker stays in the loop with the other records still to be visited; if
\* the row is WAITING or PICKED, the record the sweep goes on to write is
\* the row as loaded, with status EXPIRED.
C29_SweepDecidesAtLoad ==
    [][(pc[Worker] = "sweep" /\ stale' # stale) =>
          \E id \in stale :
             /\ stale' = stale \ {id}
             /\ packages' = packages
             /\ IF id \notin Stored \/ packages[id].Status \in Terminal
                THEN /\ pc'[Worker] = "sweep"
                     /\ id \in skipped'
                     /\ last'.op = "UpdatePackageStatus"
                     /\ last'.id = id
                     /\ last'.err \in
                           {IF id \in Stored THEN "ErrInvalidStatusTransition"
                                            ELSE "ErrPackageNotFound",
                            "ErrConnDone"}
                ELSE \/ /\ pc'[Worker] = "sweep"
                        /\ last'.err = "ErrConnDone"
                     \/ /\ pc'[Worker] = "update"
                        /\ loaded'[Worker] = packages[id].Status
                        /\ local'[Worker].Status = "EXPIRED"
                        /\ local'[Worker].ID = id
                        /\ local'[Worker].PickedUpAt = packages[id].PickedUpAt]_vars

\* C29 witness: the sweep has come to a package that was handed over
\* after the query returned it; the attempt was rejected, the package is
\* HANDED_OVER as before, and the sweep has another record to visit
C29_Witness ==
    /\ pc[Worker] = "sweep"
    /\ last.op = "UpdatePackageStatus"
    /\ last.err = "ErrInvalidStatusTransition"
    /\ last.cur = "HANDED_OVER"
    /\ last.id \in found \cap skipped
    /\ last.id \in Stored
    /\ packages[last.id].Status = "HANDED_OVER"
    /\ packages[last.id].ExpiredAt = NullTime
    /\ stale # {}

\* the ids of the packages that were stored and have been deleted: uuid.New()
\* hands out nextId next, and every id below it was inserted
Deleted == {i \in Ids : i < nextId /\ i \notin Stored}

\* C30: the id of a deleted package is never in the table again, whatever
\* step is taken, the Update of a call that loaded the record before the
\* delete included; and a GetPackage that returns a record returns a
\* stored one, so none of a deleted id.
C30_DeletedStaysDeleted ==
    /\ [][\A i \in Deleted : i \notin DOMAIN packages']_vars
    /\ []((last.op = "GetPackage" /\ last.err = "nil")
            => (last.id \notin Deleted /\ last.ret = packages[last.id]))

\* C30 witness: an UpdatePackageStatus that loaded its package before the
\* package was deleted has run its Update after the delete and returned;
\* the package is not in the table
C30_Witness ==
    /\ last.op = "UpdatePackageStatus"
    /\ "Update" \in last.calls
    /\ last.err = "nil"
    /\ last.id \in Deleted

====
